---- MODULE Spec2Model ----
(***************************************************************************)
(* A model of the asimov backtesting library: MarketOnClosePortfolio       *)
(* (src/asimov/portfolios.py), MACDCrossStrategy (src/asimov/strategies.py)*)
(* and macd (src/asimov/prices.py), together with the pandas operations    *)
(* those few lines are made of.                                            *)
(*                                                                         *)
(* A float is modelled as an extended rational <<n, d>>: d > 0 is the      *)
(* fraction n/d in lowest terms, <<1, 0>> is +inf, <<-1, 0>> is -inf and   *)
(* <<0, 0>> is NaN.  Arithmetic is exact (binary rounding is not           *)
(* modelled); NaN and the infinities follow IEEE 754.  A zero is unsigned: *)
(* every division by zero the library performs divides by a total that is  *)
(* a sum (x + (-x) is +0.0 in round-to-nearest), so the divisor is +0.0.   *)
(*                                                                         *)
(* A Series is a function from its index (a finite set of timestamps,      *)
(* ordered by <) to floats.  A DataFrame is a record of its index and its  *)
(* columns.                                                                *)
(***************************************************************************)
EXTENDS Integers, Sequences, FiniteSets, TLC

VARIABLES
    fill_method,   \* the default fill_method of Series.pct_change in the pandas in use
    strategy,      \* the caller's MACDCrossStrategy: << >>, or <<instance>>
    generated,     \* what generate_signals returned: << >>, or <<series>>
    port,          \* the caller's MarketOnClosePortfolio: << >>, or <<instance>>
    ctor_signals,  \* the signals the constructor was given: << >>, or <<series>>
    returned,      \* the tables backtest returned, in call order
    raised         \* the exception the last call raised, "" if none

vars == <<fill_method, strategy, generated, port, ctor_signals, returned, raised>>

(***************************************************************************)
(* Bounds of the model.                                                    *)
(***************************************************************************)
MaxT == 4
MaxCalls == 2
MaxStamp == 3
MaxBars == 5

Symbol == "SYM"

(***************************************************************************)
(* Floats.                                                                 *)
(***************************************************************************)
NaN == <<0, 0>>
PInf == <<1, 0>>
NInf == <<-1, 0>>
Num(n) == <<n, 1>>
Zero == Num(0)
One == Num(1)

Abs(x) == IF x < 0 THEN -x ELSE x
Sgn(x) == IF x > 0 THEN 1 ELSE IF x < 0 THEN -1 ELSE 0

RECURSIVE Gcd(_, _)
Gcd(a, b) == IF b = 0 THEN a ELSE Gcd(b, a % b)

Norm(n, d) ==
    LET g == Gcd(Abs(n), Abs(d))
    IN <<Sgn(d) * (n \div g), Sgn(d) * (d \div g)>>

IsNaN(a) == a = NaN
IsInf(a) == a[2] = 0 /\ a[1] # 0
IsFin(a) == a[2] > 0

FNeg(a) == <<-a[1], a[2]>>

FAdd(a, b) ==
    IF IsNaN(a) \/ IsNaN(b) THEN NaN
    ELSE IF IsInf(a) THEN (IF IsInf(b) /\ b # a THEN NaN ELSE a)
    ELSE IF IsInf(b) THEN b
    ELSE LET g == Gcd(a[2], b[2])
         IN Norm(a[1] * (b[2] \div g) + b[1] * (a[2] \div g), (a[2] \div g) * b[2])

FSub(a, b) == FAdd(a, FNeg(b))

FMul(a, b) ==
    IF IsNaN(a) \/ IsNaN(b) THEN NaN
    ELSE IF IsInf(a) \/ IsInf(b)
         THEN (IF a[1] = 0 \/ b[1] = 0 THEN NaN ELSE <<Sgn(a[1]) * Sgn(b[1]), 0>>)
    ELSE LET g == Gcd(Abs(a[1]), b[2])
             h == Gcd(Abs(b[1]), a[2])
         IN Norm((a[1] \div g) * (b[1] \div h), (a[2] \div h) * (b[2] \div g))

FDiv(a, b) ==
    IF IsNaN(a) \/ IsNaN(b) THEN NaN
    ELSE IF IsInf(b) THEN (IF IsInf(a) THEN NaN ELSE Zero)
    ELSE IF b[1] = 0 THEN (IF a[1] = 0 THEN NaN ELSE <<Sgn(a[1]), 0>>)
    ELSE IF IsInf(a) THEN <<Sgn(a[1]) * Sgn(b[1]), 0>>
    ELSE FMul(a, Norm(b[2], b[1]))

\* a < b; false when either is NaN
FLt(a, b) ==
    /\ ~IsNaN(a)
    /\ ~IsNaN(b)
    /\ a # b
    /\ IF IsInf(a) THEN a = NInf
       ELSE IF IsInf(b) THEN b = PInf
       ELSE LET g == Gcd(a[2], b[2])
            IN a[1] * (b[2] \div g) < b[1] * (a[2] \div g)

FLe(a, b) == ~IsNaN(a) /\ ~IsNaN(b) /\ (a = b \/ FLt(a, b))
FGt(a, b) == FLt(b, a)
FMax(a, b) == IF FLt(a, b) THEN b ELSE a
FMin(a, b) == IF FLt(b, a) THEN b ELSE a

\* the binary operation of a given name
Op(f, a, b) ==
    CASE f = "add" -> FAdd(a, b)
      [] f = "sub" -> FSub(a, b)
      [] f = "mul" -> FMul(a, b)
      [] f = "truediv" -> FDiv(a, b)
      [] f = "max" -> FMax(a, b)
      [] f = "min" -> FMin(a, b)

(***************************************************************************)
(* pandas: Series.                                                         *)
(***************************************************************************)
EmptySeries == [t \in {} |-> NaN]

\* A Series holds its values: they are computed once, when the Series is
\* built, and not each time one of them is read.  (Merging a function with
\* another makes TLC tabulate it; merging with the empty one changes nothing.)
Stored(s) == s @@ EmptySeries

SetMin(S) == CHOOSE t \in S : \A u \in S : t <= u
SetMax(S) == CHOOSE t \in S : \A u \in S : u <= t
Before(idx, t) == {u \in idx : u < t}

\* a binary operation of two Series: the result is indexed by the union of
\* the two indexes and is NaN where either operand has no entry
Align(f, a, b) ==
    Stored([t \in DOMAIN a \cup DOMAIN b |->
        IF t \in DOMAIN a /\ t \in DOMAIN b THEN Op(f, a[t], b[t]) ELSE NaN])

\* a binary operation of a Series and a scalar
Each(f, s, x) == Stored([t \in DOMAIN s |-> Op(f, s[t], x)])

\* a subtraction with its operands swapped
ScalarSub_swapped(x, s) == Stored([t \in DOMAIN s |-> FSub(s[t], x)])

\* x - s for a scalar x
ScalarSub(x, s) == Stored([t \in DOMAIN s |-> FSub(x, s[t])])

\* assigning a Series to a column of a frame conforms it to the frame's index
Reindex(s, idx) == Stored([t \in idx |-> IF t \in DOMAIN s THEN s[t] ELSE NaN])

\* Series.shift(1): by position
Shift(s) ==
    Stored([t \in DOMAIN s |->
        IF Before(DOMAIN s, t) = {} THEN NaN ELSE s[SetMax(Before(DOMAIN s, t))]])

\* Series.diff()
Diff(s) == Align("sub", s, Shift(s))

\* Series.dropna()
DropNa(s) == Stored([t \in {u \in DOMAIN s : ~IsNaN(s[u])} |-> s[t]])

\* Series.ffill(): a NaN takes the last value before it, if there is one
FFill(s) ==
    Stored([t \in DOMAIN s |->
        LET seen == {u \in DOMAIN s : u <= t /\ ~IsNaN(s[u])}
        IN IF seen = {} THEN NaN ELSE s[SetMax(seen)]])

\* cumsum, cumprod and cummax with skipna: a NaN entry is replaced by the
\* operation's unit, the values are accumulated, and the NaN is put back
Accumulate(f, unit, s) ==
    LET acc[t \in DOMAIN s] ==
            LET before == Before(DOMAIN s, t)
                prior == IF before = {} THEN unit ELSE acc[SetMax(before)]
            IN IF IsNaN(s[t]) THEN prior ELSE Op(f, prior, s[t])
    IN Stored([t \in DOMAIN s |-> IF IsNaN(s[t]) THEN NaN ELSE acc[t]])

CumSum(s) == Accumulate("add", Zero, s)
CumProd(s) == Accumulate("mul", One, s)
\* a running minimum in place of the running maximum
CumMin(s) == Accumulate("min", PInf, s)

CumMax(s) == Accumulate("max", NInf, s)

\* Series.pct_change(): data / data.shift(1) - 1, where data is the series
\* forward-filled under the default fill_method "pad" of the older pandas
\* releases and the series itself under the later default
PctChange(s, method) ==
    LET data == IF method = "pad" THEN FFill(s) ELSE s
    IN Each("sub", Align("truediv", data, Shift(data)), One)

(***************************************************************************)
(* pandas: DataFrame.  A frame is [index |-> set, cols |-> name -> Series],*)
(* every column being a Series on the frame's index.                       *)
(***************************************************************************)
\* pd.DataFrame(index=idx): a frame of no columns
EmptyFrame(idx) == [index |-> idx, cols |-> [c \in {} |-> EmptySeries]]

\* frame[name] = s
SetColumn(frame, name, s) ==
    [index |-> frame.index,
     cols |-> [c \in DOMAIN frame.cols \cup {name} |->
                 IF c = name THEN Reindex(s, frame.index) ELSE frame.cols[c]]]

\* DataFrame.rmul(s, axis=0): s * column for every column, on the union of
\* the frame's index and the index of s
RMulRows(frame, s) ==
    [index |-> frame.index \cup DOMAIN s,
     cols |-> [c \in DOMAIN frame.cols |-> Align("mul", s, frame.cols[c])]]

\* DataFrame.diff()
DiffFrame(frame) ==
    [index |-> frame.index, cols |-> [c \in DOMAIN frame.cols |-> Diff(frame.cols[c])]]

\* DataFrame.sum(axis=1): the sum of each row, NaN entries skipped (a row of
\* nothing but NaN sums to 0)
RECURSIVE RowSum(_, _, _)
RowSum(frame, names, t) ==
    IF names = {} THEN Zero
    ELSE LET c == CHOOSE x \in names : TRUE
             v == frame.cols[c][t]
         IN FAdd(IF IsNaN(v) THEN Zero ELSE v, RowSum(frame, names \ {c}, t))

SumAxis1(frame) ==
    Stored([t \in frame.index |-> RowSum(frame, DOMAIN frame.cols, t)])

(***************************************************************************)
(* MarketOnClosePortfolio (src/asimov/portfolios.py).                      *)
(***************************************************************************)
LotSize == 100

\* A Python value handed to float(): an int, a float or a str.
PyInt(n) == [type |-> "int", int |-> n, float |-> NaN, str |-> ""]
PyFloat(x) == [type |-> "float", int |-> 0, float |-> x, str |-> ""]
PyStr(w) == [type |-> "str", int |-> 0, float |-> NaN, str |-> w]

\* float(x): the float, or the exception raised
Float(x) ==
    IF x.type = "int" THEN [exc |-> "", val |-> Num(x.int)]
    ELSE IF x.type = "float" THEN [exc |-> "", val |-> x.float]
    ELSE IF x.str = "inf" THEN [exc |-> "", val |-> PInf]
    ELSE IF x.str = "-inf" THEN [exc |-> "", val |-> NInf]
    ELSE IF x.str = "nan" THEN [exc |-> "", val |-> NaN]
    ELSE [exc |-> "ValueError", val |-> NaN]

\* positions that forget the lot size
generate_positions_unscaled(self) ==
    SetColumn(EmptyFrame(DOMAIN self.signals), self.symbol, self.signals)

generate_positions(self) ==
    LET positions == EmptyFrame(DOMAIN self.signals)
    IN SetColumn(positions, self.symbol, Each("mul", self.signals, Num(LotSize)))

\* MarketOnClosePortfolio(...): the exception raised, or the new instance
MarketOnClosePortfolio(symbol, bars, signals, initial_capital) ==
    LET capital == Float(initial_capital)
        self == [symbol |-> symbol,
                 bars |-> bars,
                 signals |-> signals,
                 initial_capital |-> capital.val]
    IN IF capital.exc # "" THEN [exc |-> capital.exc, obj |-> << >>]
       ELSE [exc |-> "",
             obj |-> <<[symbol |-> self.symbol,
                        bars |-> self.bars,
                        signals |-> self.signals,
                        initial_capital |-> self.initial_capital,
                        positions |-> generate_positions(self)]>>]

\* the equity-curve table backtest builds, column by column
EquityCurve(self, method) ==
    LET close == self.bars.close
        holdings == RMulRows(self.positions, close)
        pos_diff == DiffFrame(self.positions)
        portfolio0 == EmptyFrame(self.positions.index)
        portfolio1 == SetColumn(portfolio0, "holdings", SumAxis1(holdings))
        portfolio2 == SetColumn(portfolio1, "cash",
                          ScalarSub(self.initial_capital,
                                    CumSum(Align("mul", pos_diff.cols[self.symbol], close))))
        portfolio3 == SetColumn(portfolio2, "total",
                          Align("add", portfolio2.cols.holdings, portfolio2.cols.cash))
        portfolio4 == SetColumn(portfolio3, "returns",
                          PctChange(portfolio3.cols.total, method))
        portfolio5 == SetColumn(portfolio4, "cum_returns",
                          CumProd(Each("add", portfolio4.cols.returns, One)))
        portfolio6 == SetColumn(portfolio5, "drawdown",
                          ScalarSub(One,
                                    Align("truediv", portfolio5.cols.cum_returns,
                                          CumMax(portfolio5.cols.cum_returns))))
    IN portfolio6

\* a backtest that differences the positions in place
backtest_in_place(self, method) ==
    [self |-> [self EXCEPT !.positions = DiffFrame(self.positions)],
     ret |-> EquityCurve(self, method)]

\* a call of backtest: the instance after the call and the table returned
backtest(self, method) == [self |-> self, ret |-> EquityCurve(self, method)]

(***************************************************************************)
(* macd (src/asimov/prices.py) and MACDCrossStrategy                       *)
(* (src/asimov/strategies.py).                                             *)
(***************************************************************************)
\* Series.ewm(span=span).mean(), with the defaults adjust=True,
\* ignore_na=False and min_periods=0: the running weighted average pandas
\* computes, one entry after the other
EwmMean(s, span) ==
    LET alpha == FDiv(Num(2), Num(span + 1))
        old_wt_factor == FSub(One, alpha)
        new_wt == One
        IsObs(x) == ~IsNaN(x)
        st[t \in DOMAIN s] ==
            LET cur == s[t]
                before == Before(DOMAIN s, t)
            IN IF before = {}
               THEN [weighted_avg |-> cur, old_wt |-> One,
                     nobs |-> IF IsObs(cur) THEN 1 ELSE 0]
               ELSE LET p == st[SetMax(before)]
                        nobs == p.nobs + (IF IsObs(cur) THEN 1 ELSE 0)
                        decayed == FMul(p.old_wt, old_wt_factor)
                    IN IF IsObs(p.weighted_avg)
                       THEN IF IsObs(cur)
                            THEN [weighted_avg |->
                                      IF p.weighted_avg # cur
                                      THEN FDiv(FAdd(FMul(decayed, p.weighted_avg),
                                                     FMul(new_wt, cur)),
                                                FAdd(decayed, new_wt))
                                      ELSE p.weighted_avg,
                                  old_wt |-> FAdd(decayed, new_wt),
                                  nobs |-> nobs]
                            ELSE [weighted_avg |-> p.weighted_avg, old_wt |-> decayed,
                                  nobs |-> nobs]
                       ELSE [weighted_avg |-> IF IsObs(cur) THEN cur ELSE p.weighted_avg,
                             old_wt |-> p.old_wt,
                             nobs |-> nobs]
    IN Stored([t \in DOMAIN s |-> IF st[t].nobs >= 1 THEN st[t].weighted_avg ELSE NaN])

\* pd.concat([a, b], axis=1) with the columns then named
Concat2(a, name_a, b, name_b) ==
    SetColumn(SetColumn(EmptyFrame(DOMAIN a \cup DOMAIN b), name_a, a), name_b, b)

\* macd(ts, slow, fast, signal) with percent left at its default, as the
\* strategy calls it
macd(ts, slow, fast, signal, method) ==
    LET returns == PctChange(ts.close, method)
        a == EwmMean(returns, fast)
        b == EwmMean(returns, slow)
        mac == DropNa(Align("sub", a, b))
        sig == DropNa(EwmMean(mac, signal))
    IN Concat2(mac, "macd", sig, "signal")

MACDCrossStrategy(symbol, bars, fast, slow, signal) ==
    [symbol |-> symbol, bars |-> bars, fast |-> fast, slow |-> slow, signal |-> signal]

\* np.where(a > b, x, y) as a Series on the frame's index
Where(df, x, y) ==
    Stored([t \in df.index |-> IF FGt(df.cols.macd[t], df.cols.signal[t]) THEN x ELSE y])

\* the crossing series of the discarded draft: 1 above the signal line, -1 below
generate_signals_signed(self, method) ==
    LET df == macd(self.bars, self.slow, self.fast, self.signal, method)
    IN DropNa(Diff(Where(df, One, Num(-1))))

generate_signals(self, method) ==
    LET df == macd(self.bars, self.slow, self.fast, self.signal, method)
    IN DropNa(Diff(Where(df, One, Zero)))

(***************************************************************************)
(* The inputs a caller hands to the library.                               *)
(***************************************************************************)
Prices == {5, 55}
Signals == {-1, 0, 1}
Capitals == {PyInt(5000), PyFloat(Num(10000))}
FillMethods == {"pad", "none"}
AnyCapitals ==
    {PyInt(5000), PyFloat(Num(-5000)), PyFloat(PInf), PyStr("nan"), PyStr("abc")}
Runs == {a..b : a \in 1..MaxStamp, b \in 0..MaxStamp}
MacdPrices == {1, 2, 3}
\* <<fast, slow, signal>>
Spans == {<<1, 3, 3>>, <<3, 1, 3>>, <<1, 3, 1>>}

SeriesOn(idx, values) == [idx -> {Num(v) : v \in values}]
Bars(idx, values) == {[close |-> c] : c \in SeriesOn(idx, values)}

(***************************************************************************)
(* The state machine: a caller builds one portfolio and calls backtest on  *)
(* it, keeping every table it was returned.                                *)
(***************************************************************************)
Init ==
    /\ fill_method \in FillMethods
    /\ strategy = << >>
    /\ generated = << >>
    /\ port = << >>
    /\ ctor_signals = << >>
    /\ returned = << >>
    /\ raised = ""

\* port = MarketOnClosePortfolio(symbol, bars, signals, initial_capital)
Construct(symbol, bars, signals, initial_capital) ==
    LET new == MarketOnClosePortfolio(symbol, bars, signals, initial_capital)
    IN /\ port' = new.obj
       /\ raised' = new.exc
       /\ ctor_signals' = IF new.exc = "" THEN <<signals>> ELSE << >>
       /\ UNCHANGED <<fill_method, strategy, generated, returned>>

\* the caller builds its portfolio from prices and signals on one common
\* index 1..n
ConstructAligned ==
    /\ port = << >>
    /\ \E n \in 1..MaxT :
         \E bars \in Bars(1..n, Prices), signals \in SeriesOn(1..n, Signals),
            initial_capital \in Capitals :
              Construct(Symbol, bars, signals, initial_capital)

Backtest ==
    /\ port # << >>
    /\ Len(returned) < MaxCalls
    /\ LET call == backtest(port[1], fill_method)
       IN /\ port' = <<call.self>>
          /\ returned' = Append(returned, call.ret)
    /\ raised' = ""
    /\ UNCHANGED <<fill_method, strategy, generated, ctor_signals>>

Next ==
    \/ ConstructAligned
    \/ Backtest

Spec == Init /\ [][Next]_vars

\* the caller builds its portfolio from any prices, signals and capital: the
\* two indexes are any two runs of timestamps, either possibly empty
ConstructAny ==
    /\ port = << >>
    /\ \E bar_index \in Runs, signal_index \in Runs :
         \E bars \in Bars(bar_index, Prices), signals \in SeriesOn(signal_index, Signals),
            initial_capital \in AnyCapitals :
              Construct(Symbol, bars, signals, initial_capital)

NextAny ==
    \/ ConstructAny
    \/ Backtest

SpecAny == Init /\ [][NextAny]_vars

\* the caller builds a strategy on its bars
NewStrategy ==
    /\ strategy = << >>
    /\ \E n \in 1..MaxBars :
         \E bars \in Bars(1..n, MacdPrices), spans \in Spans :
            strategy' = <<MACDCrossStrategy(Symbol, bars, spans[1], spans[2], spans[3])>>
    /\ UNCHANGED <<fill_method, generated, port, ctor_signals, returned, raised>>

GenerateSignals ==
    /\ strategy # << >>
    /\ generated = << >>
    /\ generated' = <<generate_signals(strategy[1], fill_method)>>
    /\ raised' = ""
    /\ UNCHANGED <<fill_method, strategy, port, ctor_signals, returned>>

\* the caller builds its portfolio from the strategy's bars and signals
ConstructFromSignals ==
    /\ port = << >>
    /\ generated # << >>
    /\ \E initial_capital \in Capitals :
         Construct(strategy[1].symbol, strategy[1].bars, generated[1], initial_capital)

NextPipeline ==
    \/ NewStrategy
    \/ GenerateSignals
    \/ ConstructFromSignals
    \/ Backtest

SpecPipeline == Init /\ [][NextPipeline]_vars

(***************************************************************************)
(* What the claims speak of.                                               *)
(***************************************************************************)
Self == port[1]
Tables == {returned[i] : i \in 1..Len(returned)}
Position(t) == Self.positions.cols[Self.symbol][t]
Close(t) == Self.bars.close[t]
Signal(t) == ctor_signals[1][t]
IsFirst(tab, t) == Before(tab.index, t) = {}
PrevOf(tab, t) == SetMax(Before(tab.index, t))
IsSecond(tab, t) == ~IsFirst(tab, t) /\ IsFirst(tab, PrevOf(tab, t))

\* the running maximum of the defined cum_returns over the timestamps up to t
RunningMax(tab, t) ==
    LET seen == {tab.cols.cum_returns[u] : u \in {v \in tab.index : v <= t}} \ {NaN}
    IN IF seen = {} THEN NaN ELSE CHOOSE m \in seen : \A x \in seen : FLe(x, m)

\* the cash the specification states: the initial capital less every trade
\* up to t, the first position being bought at the first close
StatedCash(tab, t) ==
    LET delta(u) == IF IsFirst(tab, u) THEN Position(u)
                    ELSE FSub(Position(u), Position(PrevOf(tab, u)))
        spent[u \in tab.index] ==
            FAdd(IF IsFirst(tab, u) THEN Zero ELSE spent[PrevOf(tab, u)],
                 FMul(delta(u), Close(u)))
    IN FSub(Self.initial_capital, spent[t])

\* C1: at every timestamp, the first included, cash(t) is the initial capital
\* less the sum over s <= t of delta(s) * close(s), the delta of the first
\* timestamp being the initial position itself.
C1_CashTrace ==
    \A tab \in Tables : \A t \in tab.index : tab.cols.cash[t] = StatedCash(tab, t)

\* C2: at every timestamp of the returned table, the first included, total(t)
\* is a defined number and equals cash(t) + holdings(t).
C2_CapitalConservation ==
    \A tab \in Tables : \A t \in tab.index :
        /\ IsFin(tab.cols.total[t])
        /\ tab.cols.total[t] = FAdd(tab.cols.cash[t], tab.cols.holdings[t])

\* C3: with a signal of 0 at every timestamp the table has position 0,
\* holdings 0, cash and total equal to the initial capital, cum_returns 1 and
\* drawdown 0 at every timestamp, and returns 0 at every timestamp but the
\* first, where it is undefined.
C3_ZeroSignal ==
    \A tab \in Tables :
        (\A t \in tab.index : Signal(t) = Zero) =>
            \A t \in tab.index :
                /\ Position(t) = Zero
                /\ tab.cols.holdings[t] = Zero
                /\ tab.cols.cash[t] = Self.initial_capital
                /\ tab.cols.total[t] = Self.initial_capital
                /\ tab.cols.cum_returns[t] = One
                /\ tab.cols.drawdown[t] = Zero
                /\ tab.cols.returns[t] = IF IsFirst(tab, t) THEN NaN ELSE Zero

DrawdownInBounds(tab, t) ==
    /\ FLe(Zero, tab.cols.drawdown[t])
    /\ FLe(tab.cols.drawdown[t], One)
    /\ tab.cols.cum_returns[t] = RunningMax(tab, t) => tab.cols.drawdown[t] = Zero

PositiveSince2nd(tab, t) ==
    \A u \in tab.index : (~IsFirst(tab, u) /\ u <= t) => FLt(Zero, tab.cols.total[u])

C6_Positions ==
    port # << >> =>
        /\ Self.positions.index = DOMAIN ctor_signals[1]
        /\ DOMAIN Self.positions.cols = {Self.symbol}
        /\ \A t \in DOMAIN ctor_signals[1] : Position(t) = FMul(Num(100), Signal(t))
        /\ \A tab \in Tables :
              /\ tab.index = DOMAIN ctor_signals[1]
              /\ \A t \in tab.index :
                    tab.cols.holdings[t] = FMul(FMul(Num(100), Signal(t)), Close(t))

\* a portfolio built from a signal that is not flat has been backtested
C6_Witness ==
    /\ returned # << >>
    /\ \E t \in DOMAIN ctor_signals[1] : Signal(t) # Zero

ValidCapital(x) == IsFin(x) /\ FLe(Zero, x)

\* C7: no portfolio exists whose initial capital is negative, infinite or
\* not a number: its construction fails.
C7_InvalidCapital == port # << >> => ValidCapital(Self.initial_capital)

\* C8: no table is returned for a portfolio whose position index and price
\* index share no timestamp, an empty signal series included: the call fails.
C8_Misaligned ==
    returned # << >> => Self.positions.index \cap DOMAIN Self.bars.close # {}

Defined(x) == ~IsNaN(x)

\* C10: between two consecutive timestamps at which total is defined, total
\* moves by the position held at the earlier one times the change of the
\* close: total(t) - total(t-1) = position(t-1) * (close(t) - close(t-1)).
C10_SelfFinancing ==
    \A tab \in Tables : \A t \in tab.index :
        (/\ ~IsFirst(tab, t)
         /\ Defined(tab.cols.total[t])
         /\ Defined(tab.cols.total[PrevOf(tab, t)])) =>
            FSub(tab.cols.total[t], tab.cols.total[PrevOf(tab, t)])
                = FMul(Position(PrevOf(tab, t)), FSub(Close(t), Close(PrevOf(tab, t))))

\* the position changes at a close that moved while a position was held
C10_Witness ==
    \E tab \in Tables : \E t \in tab.index :
        /\ ~IsFirst(tab, t)
        /\ Defined(tab.cols.total[t])
        /\ Defined(tab.cols.total[PrevOf(tab, t)])
        /\ Position(PrevOf(tab, t)) # Zero
        /\ Position(t) # Position(PrevOf(tab, t))
        /\ Close(t) # Close(PrevOf(tab, t))

Indicator == macd(strategy[1].bars, strategy[1].slow, strategy[1].fast,
                  strategy[1].signal, fill_method)
Above(df, t) == FGt(df.cols.macd[t], df.cols.signal[t])
Crossing(df, t) ==
    LET before == SetMax(Before(df.index, t))
    IN IF Above(df, t) /\ ~Above(df, before) THEN Num(1)
       ELSE IF Above(df, before) /\ ~Above(df, t) THEN Num(-1)
       ELSE Zero

\* C9: with c(t) = (macd(t) > signal_line(t)), the signal at every indicator
\* timestamp after the first is +1 if c(t) and not c(t-1), -1 if c(t-1) and
\* not c(t), and 0 otherwise; the first indicator timestamp has no entry,
\* every value is in {-1, 0, 1}, and the nonzero values alternate in sign.
C9_Crossover ==
    generated # << >> =>
        LET out == generated[1]
            df == Indicator
        IN /\ DOMAIN out = {t \in df.index : Before(df.index, t) # {}}
           /\ \A t \in DOMAIN out : out[t] = Crossing(df, t)
           /\ \A t \in DOMAIN out : out[t] \in {Num(-1), Zero, Num(1)}
           /\ \A u, t \in DOMAIN out :
                 (/\ u < t
                  /\ out[u] # Zero
                  /\ out[t] # Zero
                  /\ \A v \in DOMAIN out : (u < v /\ v < t) => out[v] = Zero)
                 => out[u] # out[t]

\* the indicator crossed its signal line upward and later downward
C9_Witness ==
    /\ generated # << >>
    /\ \E u, t \in DOMAIN generated[1] :
          u < t /\ generated[1][u] = Num(1) /\ generated[1][t] = Num(-1)

====
